---- MODULE Spec2Model ----
(***************************************************************************)
(* Alpha15 breakout signal engine (src/alpha15.py): the session scheduler  *)
(* signal_detection, the per-instrument evaluation check_trading_conditions*)
(* and the notifier send_telegram_message.                                 *)
(*                                                                         *)
(* Prices and ATR are integers (price units); Python's None, a numeric     *)
(* value and a non-numeric value are tagged records so that they can be    *)
(* compared with each other.                                               *)
(***************************************************************************)
EXTENDS Integers, Sequences, FiniteSets, TLC

VARIABLES
    symbols,          \* module-level list loaded by load_symbols()
    holidays,         \* signal_detection local: holiday calendar snapshot
    alerted_symbols,  \* signal_detection local: set of alerted symbols
    current_date,     \* signal_detection local: stored session date
    failed_symbols,   \* signal_detection local: retry list of this cycle
    pc,               \* position of signal_detection
    idx,              \* position of the running for loop (1-based)
    now,              \* the wall clock read by datetime.now(ist)
    notified,         \* history: send_telegram_message calls per symbol since the last observed rollover
    lastStep,         \* history: what the last step did (a call of check_trading_conditions, a skip, a reset)
    holidays_fetched_on, \* history: the date on which get_holidays() was last called
    cycleLog,         \* history: the calls and skips of the running cycle, in order
    evalIn,           \* evaluation harness: inputs of one check_trading_conditions call
    evalOut,          \* evaluation harness: its outcome
    atrIn,            \* ATR harness: the daily history handed to calculate_atr
    atrOut,           \* ATR harness: what calculate_atr returns
    atrCaller,        \* ATR harness: outcome of the check_trading_conditions call that got this ATR
    pocIn,            \* POC harness: prior-day candles and tick size handed to calculate_poc
    pocOut,           \* POC harness: what calculate_poc returns
    pocProfile        \* POC harness: the dict tpo_count when calculate_poc has built it

vars == <<symbols, holidays, alerted_symbols, current_date, failed_symbols,
          pc, idx, now, notified, lastStep, holidays_fetched_on, cycleLog,
          evalIn, evalOut,
          atrIn, atrOut, atrCaller, pocIn, pocOut, pocProfile>>

schedVars == <<symbols, holidays, alerted_symbols, current_date, failed_symbols,
               pc, idx, now, notified, lastStep, holidays_fetched_on, cycleLog>>

harnessVars == <<evalIn, evalOut, atrIn, atrOut, atrCaller, pocIn, pocOut, pocProfile>>

(***************************************************************************)
(* Bounds of the model.                                                    *)
(***************************************************************************)
MaxSymbols == 2

MaxDay == 1

MaxPrice == 2

Syms == {"A", "B"}

(***************************************************************************)
(* Values.                                                                 *)
(***************************************************************************)
None == [kind |-> "None"]

Num(v) == [kind |-> "num", v |-> v]

\* a value that is not a number (a string in the quote payload)
NotNum == [kind |-> "str"]

Candle(o, h, l) == [kind |-> "candle", open |-> o, high |-> h, low |-> l]

\* a row whose 'open'/'high'/'low' cannot be read as a float
Malformed == [kind |-> "malformed"]

\* DataFrame of n rows of which only the first is read
Frame(first, n) == [kind |-> "frame", first |-> first, len |-> n]

(***************************************************************************)
(* The clock: a date and sample times of day around the window bounds.     *)
(***************************************************************************)
TimesOfDay == { <<8, 50>>, <<9, 29>>, <<9, 30>>, <<9, 45>>, <<9, 46>>, <<10, 10>> }

Clocks == { [date |-> d, hour |-> t[1], minute |-> t[2]] : d \in 0..MaxDay, t \in TimesOfDay }

MinuteOfDay(t) == t.hour * 60 + t.minute

Later(a, b) ==
    \/ a.date > b.date
    \/ a.date = b.date /\ MinuteOfDay(a) > MinuteOfDay(b)

(***************************************************************************)
(* send_telegram_message: attempts[i] is "ok" when the i-th requests.post  *)
(* returns and "exc" when it raises.                                       *)
(***************************************************************************)
max_retries == 3

TelegramAttempts == [1..max_retries -> {"ok", "exc"}]

RECURSIVE SendFromRaising(_, _)
SendFromRaising(retry, attempts) ==
    IF retry >= max_retries
    THEN [delivered |-> FALSE, raised |-> FALSE, posts |-> retry]
    ELSE IF attempts[retry + 1] = "ok"
         THEN [delivered |-> TRUE, raised |-> FALSE, posts |-> retry + 1]
         ELSE IF retry < max_retries - 1
              THEN SendFromRaising(retry + 1, attempts)
              ELSE [delivered |-> FALSE, raised |-> TRUE, posts |-> retry + 1]

RECURSIVE SendFrom(_, _)
SendFrom(retry, attempts) ==
    IF retry >= max_retries
    THEN \* the for loop is exhausted: the function falls off its end
         [delivered |-> FALSE, raised |-> FALSE, posts |-> retry]
    ELSE IF attempts[retry + 1] = "ok"
         THEN [delivered |-> TRUE, raised |-> FALSE, posts |-> retry + 1]
         ELSE \* except Exception: log, sleep(1) unless it was the last try
              SendFrom(retry + 1, attempts)

send_telegram_message_reraise(attempts) == SendFromRaising(0, attempts)

send_telegram_message(attempts) == SendFrom(0, attempts)

(***************************************************************************)
(* get_15min_candles: no fetch before 09:30, else the gateway's answer.    *)
(***************************************************************************)
BeforeFirstCandle(t) == t.hour < 9 \/ (t.hour = 9 /\ t.minute < 30)

get_15min_candles(response, t) ==
    IF BeforeFirstCandle(t) THEN None ELSE response

(***************************************************************************)
(* check_trading_conditions, lines 321-360: the decision.                  *)
(***************************************************************************)
buy_conditions_weak(fc_open, fc_high, poc, atr, current_ltp) ==
    << fc_open > poc, atr > fc_high - fc_open, current_ltp >= fc_high >>

buy_conditions(fc_open, fc_high, poc, atr, current_ltp) ==
    << fc_open > poc, atr > fc_high - fc_open, current_ltp > fc_high >>

sell_conditions_weak(fc_open, fc_low, poc, atr, current_ltp) ==
    << fc_open < poc, atr >= fc_open - fc_low, current_ltp < fc_low >>

sell_conditions(fc_open, fc_low, poc, atr, current_ltp) ==
    << fc_open < poc, atr > fc_open - fc_low, current_ltp < fc_low >>

all(conds) == \A i \in DOMAIN conds : conds[i]

\* what a call of check_trading_conditions hands back to its caller
Outcome(signal, raised, sent, delivered) ==
    [signal |-> signal, raised |-> raised, sent |-> sent, delivered |-> delivered,
     missing |-> "none"]

missing_input_raises(which) ==
    [signal |-> "None", raised |-> TRUE, sent |-> 0, delivered |-> FALSE,
     missing |-> which]

\* lines 290-293, 296-299, 302-305, 316-319: an input that is not there is
\* logged and answered with `return None`
missing_input(which) ==
    [signal |-> "None", raised |-> FALSE, sent |-> 0, delivered |-> FALSE,
     missing |-> which]

Alert(signal, attempts) ==
    LET r == send_telegram_message(attempts) IN
    IF r.raised
    THEN Outcome("None", TRUE, 1, FALSE)
    ELSE Outcome(signal, FALSE, 1, r.delivered)

\* in: [poc, candles, atr, ltp, telegram], the answers the collaborators give
\* during this call; t: the clock during the call
check_trading_conditions(in, t) ==
    LET candles_15min == get_15min_candles(in.candles, t) IN
    IF in.poc = None THEN missing_input("poc")
    ELSE IF candles_15min = None \/ candles_15min.len < 2
    THEN missing_input("candles")
    ELSE IF in.atr = None THEN missing_input("atr")
    ELSE IF candles_15min.first = Malformed
    THEN Outcome("None", TRUE, 0, FALSE)    \* float(first_candle[...]) raises
    ELSE IF in.ltp = None THEN missing_input("ltp")
    ELSE
      LET first_candle == candles_15min.first
          fc_open == first_candle.open
          fc_low == first_candle.low
          fc_high == first_candle.high
          poc == in.poc.v
          atr == in.atr.v
      IN
      IF fc_open > poc
      THEN IF in.ltp = NotNum
           THEN Outcome("None", TRUE, 0, FALSE)   \* current_ltp > fc_high raises TypeError
           ELSE IF all(buy_conditions(fc_open, fc_high, poc, atr, in.ltp.v))
                THEN Alert("BUY", in.telegram)
                ELSE Outcome("None", FALSE, 0, FALSE)
      ELSE IF fc_open < poc
      THEN IF in.ltp = NotNum
           THEN Outcome("None", TRUE, 0, FALSE)   \* current_ltp < fc_low raises TypeError
           ELSE IF all(sell_conditions(fc_open, fc_low, poc, atr, in.ltp.v))
                THEN Alert("SELL", in.telegram)
                ELSE Outcome("None", FALSE, 0, FALSE)
      ELSE Outcome("None", FALSE, 0, FALSE)

(***************************************************************************)
(* signal_detection.                                                       *)
(***************************************************************************)
TickSize == 5    \* tick_size 0.05, in hundredths

symbol_data == [i \in 1..Len(symbols) |-> [symbol |-> symbols[i], tick_size |-> TickSize]]

\* get_holidays(): the calendar the gateway returns, or [] when the call fails
HolidayCalendars == { {}, {"holiday"} }

\* The answers the gateway, the quote feed and Telegram may give during one
\* evaluation made by the scheduler (first candle 102/105/101 of the day).
GatewayAnswers ==
    [ poc      : {None, Num(100), Num(102), Num(104)},
      candles  : {None, Frame(Candle(102, 105, 101), 1),
                  Frame(Candle(102, 105, 101), 2), Frame(Malformed, 2)},
      atr      : {None, Num(4)},
      ltp      : {None, NotNum, Num(100), Num(106)},
      telegram : TelegramAttempts ]

IsNewDayOrSame(t, d) == t.date >= d

IsNewDay(t, d) == t.date > d

WindowNeverEnded(t) == FALSE

WindowEndedByHour(t) == t.hour > 9

WindowEnded(t) == t.hour > 9 \/ (t.hour = 9 /\ t.minute > 45)

BeforeWindowByHour(t) == t.hour < 9

BeforeWindow(t) == t.hour < 9 \/ (t.hour = 9 /\ t.minute < 30)

PrimaryNeverAlerted(symbol) == FALSE

\* line 405
PrimaryAlreadyAlerted(symbol) == symbol \in alerted_symbols

RetryNeverAlerted(symbol) == FALSE

\* line 430
RetryAlreadyAlerted(symbol) == symbol \in alerted_symbols

AnySignal(signal) == TRUE

\* `if signal:` -- None is falsy, "BUY" and "SELL" are truthy
Truthy(signal) == signal # "None"

AllProcessed == Cardinality(alerted_symbols) = Len(symbols)

NoStep == [kind |-> "None"]

keep_holidays(t) == { [holidays |-> holidays, fetched_on |-> holidays_fetched_on] }

\* line 387: holidays = get_holidays(), called at time t; what it returns is
\* the gateway's choice
refresh_holidays(t) ==
    { [holidays |-> h, fetched_on |-> t.date] : h \in HolidayCalendars }

drop_failed(failed, item) == failed

\* line 420: failed_symbols.append(item)
queue_failed(failed, item) == Append(failed, item)

abort_on_error(i, raised) == IF raised THEN Len(symbol_data) + 1 ELSE i + 1

\* lines 418-421: the except clause ends the iteration only, the for loop
\* goes on with the next item whether or not the call raised
resume_primary(i, raised) == i + 1

\* history: one entry of cycleLog
Logged(kind, pass, pos, symbol, raised) ==
    [kind |-> kind, pass |-> pass, pos |-> pos, symbol |-> symbol, raised |-> raised]

Init ==
    /\ symbols \in UNION { [1..n -> Syms] : n \in 0..MaxSymbols }
    /\ holidays \in HolidayCalendars
    /\ alerted_symbols = {}
    /\ now \in { c \in Clocks : c.date = 0 }
    /\ current_date = now.date
    /\ failed_symbols = << >>
    /\ pc = "top"
    /\ idx = 0
    /\ notified = [s \in Syms |-> 0]
    /\ lastStep = NoStep
    /\ holidays_fetched_on = 0
    /\ cycleLog = << >>
    /\ evalIn = None
    /\ evalOut = None
    /\ atrIn = None
    /\ atrOut = None
    /\ atrCaller = None
    /\ pocIn = None
    /\ pocOut = None
    /\ pocProfile = None

\* time passes (sleeps, gateway calls, the process being suspended)
Tick ==
    /\ \E c \in Clocks : Later(c, now) /\ now' = c
    /\ lastStep' = NoStep
    /\ UNCHANGED <<symbols, holidays, alerted_symbols, current_date,
                   failed_symbols, pc, idx, notified, holidays_fetched_on, cycleLog, harnessVars>>

\* lines 380-399: the top of the while loop
CycleTop ==
    /\ pc = "top"
    /\ LET current_time == now IN
       /\ IF IsNewDay(current_time, current_date)
          THEN /\ alerted_symbols' = {}
               /\ current_date' = current_time.date
               /\ \E r \in refresh_holidays(current_time) :
                      /\ holidays' = r.holidays
                      /\ holidays_fetched_on' = r.fetched_on
               /\ lastStep' = [kind |-> "reset", cleared |-> alerted_symbols]
          ELSE /\ UNCHANGED <<alerted_symbols, current_date, holidays,
                              holidays_fetched_on>>
               /\ lastStep' = NoStep
       \* history: a new session date starts when the observed date has advanced
       /\ notified' = IF current_time.date > current_date
                      THEN [s \in Syms |-> 0]
                      ELSE notified
       /\ IF WindowEnded(current_time)
          THEN pc' = "done" /\ UNCHANGED <<failed_symbols, idx>>
          ELSE IF BeforeWindow(current_time)
               THEN pc' = "waiting" /\ UNCHANGED <<failed_symbols, idx>>
               ELSE pc' = "primary" /\ failed_symbols' = << >> /\ idx' = 1
    /\ UNCHANGED <<symbols, now, cycleLog, harnessVars>>

\* lines 395-396: time.sleep(60); continue
WaitForWindow ==
    /\ pc = "waiting"
    /\ pc' = "top"
    /\ lastStep' = NoStep
    /\ UNCHANGED <<symbols, holidays, alerted_symbols, current_date,
                   failed_symbols, idx, now, notified, holidays_fetched_on, cycleLog, harnessVars>>

\* lines 411-421 and 436-445: one call of check_trading_conditions in a try block
Evaluate(item, pass, pos) ==
    \E r \in { check_trading_conditions(in, now) : in \in GatewayAnswers } :
        /\ alerted_symbols' =
               IF ~r.raised /\ Truthy(r.signal)
               THEN alerted_symbols \cup {item.symbol}
               ELSE alerted_symbols
        /\ failed_symbols' =
               IF r.raised /\ pass = "primary"
               THEN queue_failed(failed_symbols, item)
               ELSE failed_symbols
        \* history: calls of the notifier, counted up to 2
        /\ notified' = [notified EXCEPT ![item.symbol] = IF @ + r.sent < 2 THEN @ + r.sent ELSE 2]
        /\ lastStep' = [kind |-> "call", symbol |-> item.symbol, pass |-> pass,
                        at |-> now, signal |-> r.signal, raised |-> r.raised,
                        sent |-> r.sent, delivered |-> r.delivered,
                        missing |-> r.missing]
        /\ cycleLog' = Append(cycleLog, Logged("call", pass, pos, item.symbol, r.raised))

\* lines 401-407: an already alerted symbol is skipped
PrimarySkip ==
    /\ pc = "primary"
    /\ idx <= Len(symbol_data)
    /\ PrimaryAlreadyAlerted(symbol_data[idx].symbol)
    /\ idx' = idx + 1
    /\ lastStep' = [kind |-> "skip", symbol |-> symbol_data[idx].symbol, pass |-> "primary"]
    /\ cycleLog' = Append(cycleLog, Logged("skip", "primary", idx, symbol_data[idx].symbol, FALSE))
    /\ UNCHANGED <<symbols, holidays, alerted_symbols, current_date,
                   failed_symbols, pc, now, notified, holidays_fetched_on, harnessVars>>

\* lines 409-421
PrimaryEvaluate ==
    /\ pc = "primary"
    /\ idx <= Len(symbol_data)
    /\ ~PrimaryAlreadyAlerted(symbol_data[idx].symbol)
    /\ Evaluate(symbol_data[idx], "primary", idx)
    /\ idx' = resume_primary(idx, lastStep'.raised)
    /\ UNCHANGED <<symbols, holidays, current_date, pc, now, holidays_fetched_on, harnessVars>>

\* lines 423-426: the primary loop is over
PrimaryDone ==
    /\ pc = "primary"
    /\ idx > Len(symbol_data)
    /\ IF failed_symbols # << >>
       THEN pc' = "retry" /\ idx' = 1
       ELSE pc' = "cycle_end" /\ idx' = 0
    /\ lastStep' = NoStep
    /\ UNCHANGED <<symbols, holidays, alerted_symbols, current_date,
                   failed_symbols, now, notified, holidays_fetched_on, cycleLog, harnessVars>>

\* lines 426-432
RetrySkip ==
    /\ pc = "retry"
    /\ idx <= Len(failed_symbols)
    /\ RetryAlreadyAlerted(failed_symbols[idx].symbol)
    /\ idx' = idx + 1
    /\ lastStep' = [kind |-> "skip", symbol |-> failed_symbols[idx].symbol, pass |-> "retry"]
    /\ cycleLog' = Append(cycleLog, Logged("skip", "retry", idx, failed_symbols[idx].symbol, FALSE))
    /\ UNCHANGED <<symbols, holidays, alerted_symbols, current_date,
                   failed_symbols, pc, now, notified, holidays_fetched_on, harnessVars>>

\* lines 434-445
RetryEvaluate ==
    /\ pc = "retry"
    /\ idx <= Len(failed_symbols)
    /\ ~RetryAlreadyAlerted(failed_symbols[idx].symbol)
    /\ Evaluate(failed_symbols[idx], "retry", idx)
    /\ idx' = idx + 1
    /\ UNCHANGED <<symbols, holidays, current_date, pc, now, holidays_fetched_on, harnessVars>>

RetryDone ==
    /\ pc = "retry"
    /\ idx > Len(failed_symbols)
    /\ pc' = "cycle_end"
    /\ idx' = 0
    /\ lastStep' = NoStep
    /\ UNCHANGED <<symbols, holidays, alerted_symbols, current_date,
                   failed_symbols, now, notified, holidays_fetched_on, cycleLog, harnessVars>>

\* lines 447-451: stop when all symbols are processed, else sleep(5) and loop
CycleEnd ==
    /\ pc = "cycle_end"
    /\ pc' = IF AllProcessed THEN "done" ELSE "top"
    /\ lastStep' = NoStep
    /\ cycleLog' = << >>
    /\ UNCHANGED <<symbols, holidays, alerted_symbols, current_date,
                   failed_symbols, idx, now, notified, holidays_fetched_on, harnessVars>>

Next ==
    \/ Tick
    \/ CycleTop
    \/ WaitForWindow
    \/ PrimarySkip
    \/ PrimaryEvaluate
    \/ PrimaryDone
    \/ RetrySkip
    \/ RetryEvaluate
    \/ RetryDone
    \/ CycleEnd

Spec == Init /\ [][Next]_vars

\* the steps of signal_detection itself
SchedulerStep ==
    \/ CycleTop
    \/ WaitForWindow
    \/ PrimarySkip
    \/ PrimaryEvaluate
    \/ PrimaryDone
    \/ RetrySkip
    \/ RetryEvaluate
    \/ RetryDone
    \/ CycleEnd

\* symbols.txt for the runs followed to their end: empty, one symbol, the
\* same symbol twice, two symbols
WatchLists == { << >>, <<"A">>, <<"A", "A">>, <<"A", "B">> }

InitLive == Init /\ symbols \in WatchLists

\* the clock keeps advancing, and every call and every sleep of the single
\* thread returns, so the step signal_detection is at is eventually taken
SpecLive == InitLive /\ [][Next]_vars /\ WF_vars(Tick) /\ WF_vars(SchedulerStep)

(***************************************************************************)
(* Evaluation harness: one call of check_trading_conditions on inputs      *)
(* drawn from a grid of gateway answers, quotes and delivery outcomes.     *)
(***************************************************************************)
Prices == 1..MaxPrice

\* first candles with low <= open <= high
Candles == { Candle(o, h, l) : o \in Prices, h \in Prices, l \in Prices }

WellFormed == { c \in Candles : c.low <= c.open /\ c.open <= c.high }

EvalInputs ==
    [ poc      : {None} \cup { Num(p) : p \in Prices },
      candles  : {None} \cup { Frame(c, n) : c \in WellFormed \cup {Malformed}, n \in 1..2 },
      atr      : {None} \cup { Num(a) : a \in 0..MaxPrice },
      ltp      : {None, NotNum} \cup { Num(p) : p \in 0..(MaxPrice + 1) },
      telegram : TelegramAttempts ]

InitEval ==
    /\ symbols = << >>
    /\ holidays = {}
    /\ alerted_symbols = {}
    /\ now \in { c \in Clocks : c.date = 0 }
    /\ current_date = 0
    /\ failed_symbols = << >>
    /\ pc = "eval"
    /\ idx = 0
    /\ notified = [s \in Syms |-> 0]
    /\ lastStep = NoStep
    /\ holidays_fetched_on = 0
    /\ cycleLog = << >>
    /\ evalIn \in EvalInputs
    /\ evalOut = None
    /\ atrIn = None
    /\ atrOut = None
    /\ atrCaller = None
    /\ pocIn = None
    /\ pocOut = None
    /\ pocProfile = None

ApplyCheck ==
    /\ pc = "eval"
    /\ evalOut = None
    /\ evalOut' = check_trading_conditions(evalIn, now)
    /\ UNCHANGED <<schedVars, evalIn, atrIn, atrOut, atrCaller, pocIn, pocOut, pocProfile>>

NextEval == ApplyCheck

SpecEval == InitEval /\ [][NextEval]_vars

(***************************************************************************)
(* calculate_atr: the history response is None (the call failed, returned  *)
(* a non-success status or no data) or the list of daily bars.  The ATR is *)
(* an exact fraction n/d.                                                  *)
(***************************************************************************)
MaxBars == 16

Bar(h, l, c) == [high |-> h, low |-> l, close |-> c]

\* two daily bars: a wide one and a narrow one that gaps away from it
DailyBars == { Bar(3, 1, 2), Bar(5, 4, 4) }

\* a successful history response and its rows
Rows(rows) == [kind |-> "data", rows |-> rows]

DailyHistories ==
    {None} \cup { Rows(q) : q \in UNION { [1..n -> DailyBars] : n \in 1..MaxBars } }

Ratio(n, d) == [kind |-> "num", n |-> n, d |-> d]

Abs(x) == IF x < 0 THEN -x ELSE x

Max2(a, b) == IF a > b THEN a ELSE b

\* df['TR'] of row i (1-based): H-PC and L-PC are NaN on the first row and
\* max(axis=1) skips them
TR(df, i) ==
    LET hl == df[i].high - df[i].low IN
    IF i = 1
    THEN hl
    ELSE Max2(hl, Max2(Abs(df[i].high - df[i - 1].close),
                       Abs(df[i].low - df[i - 1].close)))

RECURSIVE SumTR(_, _)
SumTR(df, k) == IF k = 0 THEN 0 ELSE SumTR(df, k - 1) + TR(df, k)

atr_period == 14

min_daily_bars == 15

\* line 146: df['TR'].iloc[:14].mean()
seed_atr(df) == Ratio(SumTR(df, atr_period), atr_period)

\* line 148: (atr[-1] * (14 - 1) + TR[i]) / 14
wilder_step(prev, tr) ==
    Ratio(prev.n * (atr_period - 1) + tr * prev.d, prev.d * atr_period)

smoothed_rows_late(df) == (atr_period + 2)..Len(df)

\* line 147: range(14, len(df)), as 1-based rows
smoothed_rows(df) == (atr_period + 1)..Len(df)

\* the last element of the list atr after the loop has run up to row i
RECURSIVE atr_upto(_, _)
atr_upto(df, i) ==
    IF i \in smoothed_rows(df)
    THEN wilder_step(atr_upto(df, i - 1), TR(df, i))
    ELSE seed_atr(df)

too_few_bars_off_by_one(df) == Len(df) < min_daily_bars - 1

\* line 136
too_few_bars(df) == Len(df) < min_daily_bars

calculate_atr(hist_response) ==
    IF hist_response = None
    THEN None
    ELSE LET df == hist_response.rows IN
         IF too_few_bars(df)
         THEN None
         ELSE atr_upto(df, Len(df))

\* The call of check_trading_conditions that receives this ATR, with every
\* other input present (POC 100, first candle 104/105/101, quote 106);
\* prices are handed over in units of 1/d so that the ATR n/d is the integer n.
caller_inputs(atr) ==
    LET d == IF atr = None THEN 1 ELSE atr.d IN
    [ poc      |-> Num(100 * d),
      candles  |-> Frame(Candle(104 * d, 105 * d, 101 * d), 2),
      atr      |-> IF atr = None THEN None ELSE Num(atr.n),
      ltp      |-> Num(106 * d),
      telegram |-> [i \in 1..max_retries |-> "ok"] ]

Pending == [kind |-> "pending"]

InitAtr ==
    /\ symbols = << >>
    /\ holidays = {}
    /\ alerted_symbols = {}
    /\ now = [date |-> 0, hour |-> 9, minute |-> 30]
    /\ current_date = 0
    /\ failed_symbols = << >>
    /\ pc = "atr"
    /\ idx = 0
    /\ notified = [s \in Syms |-> 0]
    /\ lastStep = NoStep
    /\ holidays_fetched_on = 0
    /\ cycleLog = << >>
    /\ evalIn = None
    /\ evalOut = None
    /\ atrIn \in DailyHistories
    /\ atrOut = Pending
    /\ atrCaller = Pending
    /\ pocIn = None
    /\ pocOut = None
    /\ pocProfile = None

\* line 302: atr = calculate_atr(symbol, exchange)
ApplyAtr ==
    /\ pc = "atr"
    /\ atrOut = Pending
    /\ atrOut' = calculate_atr(atrIn)
    /\ UNCHANGED <<schedVars, evalIn, evalOut, atrIn, atrCaller, pocIn, pocOut, pocProfile>>

\* lines 303-360: the rest of check_trading_conditions with that ATR
ApplyCaller ==
    /\ pc = "atr"
    /\ atrOut # Pending
    /\ atrCaller = Pending
    /\ atrCaller' = check_trading_conditions(caller_inputs(atrOut), now)
    /\ UNCHANGED <<schedVars, evalIn, evalOut, atrIn, atrOut, pocIn, pocOut, pocProfile>>

NextAtr == ApplyAtr \/ ApplyCaller

SpecAtr == InitAtr /\ [][NextAtr]_vars

(***************************************************************************)
(* calculate_poc: prices and tick sizes are integers in units of 0.0025    *)
(* (a tick size of 0.05 is 20 units and gives a bin width of 1 unit; a     *)
(* price with two decimals is a multiple of 4 units).                      *)
(***************************************************************************)
MaxCandles == 3

MaxLevel == 3

\* tick sizes 0.05, 0.10 and 0.15
TickSizes == {20, 40, 60}

\* prices 0.01, 0.02, ...
PocPrices == { 4 * k : k \in 1..MaxLevel }

IntradayCandles == { [low |-> l, high |-> h] : l \in PocPrices, h \in PocPrices }

IntradayWellFormed == { c \in IntradayCandles : c.low <= c.high }

PocInputs ==
    [ hist : {None} \cup { Rows(q) : q \in UNION { [1..n -> IntradayWellFormed] : n \in 1..MaxCandles } },
      tick_size : TickSizes ]

RECURSIVE MinLow(_, _)
MinLow(df, k) ==
    IF k = 1 THEN df[1].low
    ELSE LET m == MinLow(df, k - 1) IN IF df[k].low < m THEN df[k].low ELSE m

RECURSIVE MaxHigh(_, _)
MaxHigh(df, k) ==
    IF k = 1 THEN df[1].high
    ELSE LET m == MaxHigh(df, k - 1) IN IF df[k].high > m THEN df[k].high ELSE m

\* line 188: tick_size * 0.05
tick_size_adj(tick_size) == (tick_size * 5) \div 100

Floor(x, w) == x \div w

Ceil(x, w) == (x + w - 1) \div w

\* lines 189-191: np.arange(min_price, max_price + tick_size_adj, tick_size_adj)
price_bins(df, w) ==
    LET min_price == Floor(MinLow(df, Len(df)), w) * w
        max_price == Ceil(MaxHigh(df, Len(df)), w) * w
    IN [ j \in 1..((max_price - min_price) \div w + 1) |-> min_price + (j - 1) * w ]

\* lines 198-205: the rows whose letter is appended to the bin at `price`
market_profile(df, w, price) ==
    { i \in 1..Len(df) : df[i].low <= price + w /\ df[i].high >= price }

tpo_count(df, w, price) == Cardinality(market_profile(df, w, price))

\* lines 196-205: the dict tpo_count after the loop over the rows, one key
\* per bin; nothing is built when the history call gave no data
tpo_count_dict(hist_response, tick_size) ==
    IF hist_response = None
    THEN None
    ELSE LET df == hist_response.rows
             w == tick_size_adj(tick_size)
             bins == price_bins(df, w)
         IN [kind |-> "dict",
             count |-> [ price \in { bins[j] : j \in 1..Len(bins) } |->
                           tpo_count(df, w, price) ]]

\* lines 207-209: the bins that are left, in ascending price order
profile_rows(df, w) ==
    SelectSeq(price_bins(df, w), LAMBDA price : market_profile(df, w, price) # {})

idxmax_last(df, w, rows) ==
    CHOOSE j \in 1..Len(rows) :
        /\ \A k \in 1..Len(rows) : tpo_count(df, w, rows[k]) <= tpo_count(df, w, rows[j])
        /\ \A k \in (j + 1)..Len(rows) : tpo_count(df, w, rows[k]) < tpo_count(df, w, rows[j])

\* line 215: idxmax() is the first row holding the maximum
idxmax(df, w, rows) ==
    CHOOSE j \in 1..Len(rows) :
        /\ \A k \in 1..Len(rows) : tpo_count(df, w, rows[k]) <= tpo_count(df, w, rows[j])
        /\ \A k \in 1..(j - 1) : tpo_count(df, w, rows[k]) < tpo_count(df, w, rows[j])

calculate_poc(hist_response, tick_size) ==
    IF hist_response = None
    THEN None
    ELSE LET df == hist_response.rows
             w == tick_size_adj(tick_size)
             rows == profile_rows(df, w)
         IN IF rows = << >>
            THEN None
            ELSE Num(rows[idxmax(df, w, rows)])

InitPoc ==
    /\ symbols = << >>
    /\ holidays = {}
    /\ alerted_symbols = {}
    /\ now = [date |-> 0, hour |-> 9, minute |-> 30]
    /\ current_date = 0
    /\ failed_symbols = << >>
    /\ pc = "poc"
    /\ idx = 0
    /\ notified = [s \in Syms |-> 0]
    /\ lastStep = NoStep
    /\ holidays_fetched_on = 0
    /\ cycleLog = << >>
    /\ evalIn = None
    /\ evalOut = None
    /\ atrIn = None
    /\ atrOut = None
    /\ atrCaller = None
    /\ pocIn \in PocInputs
    /\ pocOut = Pending
    /\ pocProfile = Pending

\* line 290: poc = calculate_poc(symbol, tick_size, exchange, holidays)
ApplyPoc ==
    /\ pc = "poc"
    /\ pocOut = Pending
    /\ pocOut' = calculate_poc(pocIn.hist, pocIn.tick_size)
    /\ pocProfile' = tpo_count_dict(pocIn.hist, pocIn.tick_size)
    /\ UNCHANGED <<schedVars, evalIn, evalOut, atrIn, atrOut, atrCaller, pocIn>>

NextPoc == ApplyPoc

SpecPoc == InitPoc /\ [][NextPoc]_vars

(***************************************************************************)
(* Properties of the scheduler (checked under Spec).                       *)
(***************************************************************************)
IsCall(step) == step.kind = "call"

\* C1: for every instrument and every session date (the span between two
\* observed date rollovers) send_telegram_message is invoked at most once.
C1_AtMostOneAlertPerDay == \A s \in Syms : notified[s] <= 1

\* an instrument that raised in the primary pass alerts in the retry pass
C1_Witness ==
    /\ IsCall(lastStep)
    /\ lastStep.pass = "retry"
    /\ lastStep.sent = 1
    /\ notified[lastStep.symbol] = 1

\* C2: no step calls check_trading_conditions (primary or retry pass) for an
\* instrument that is in the alerted set when the step is taken.
C2_NoCallOnceAlerted ==
    [][IsCall(lastStep') => lastStep'.symbol \notin alerted_symbols]_vars

\* the retry pass has just skipped a queued instrument that alerted meanwhile
C2_Witness ==
    /\ lastStep.kind = "skip"
    /\ lastStep.pass = "retry"
    /\ lastStep.symbol \in alerted_symbols

\* C3: an instrument enters the alerted set only in a step that evaluated it
\* with result BUY or SELL; an evaluation that returns None or raises adds
\* nothing.
C3_AlertedOnlyAfterSignal ==
    [][ /\ \A s \in alerted_symbols' \ alerted_symbols :
              /\ IsCall(lastStep')
              /\ lastStep'.symbol = s
              /\ ~lastStep'.raised
              /\ lastStep'.signal \in {"BUY", "SELL"}
        /\ (IsCall(lastStep') /\ (lastStep'.raised \/ lastStep'.signal = "None"))
              => alerted_symbols' = alerted_symbols
      ]_vars

\* an evaluation without a signal leaves its instrument out of a non-empty set
C3_Witness ==
    /\ IsCall(lastStep)
    /\ lastStep.raised \/ lastStep.signal = "None"
    /\ lastStep.symbol \notin alerted_symbols
    /\ alerted_symbols # {}

\* the top-of-cycle step that observes a date later than the stored date
RolloverStep == pc = "top" /\ pc' # "top" /\ now.date > current_date

\* C4: the rollover step empties the alerted set and stores the observed
\* date, and every step that removes an element from the set is a rollover
\* step.
C4_ClearedIffRollover ==
    [][ /\ RolloverStep => alerted_symbols' = {} /\ current_date' = now.date
        /\ ~(alerted_symbols \subseteq alerted_symbols') => RolloverStep
      ]_vars

\* a rollover has just emptied a non-empty alerted set
C4_Witness ==
    /\ lastStep.kind = "reset"
    /\ lastStep.cleared # {}
    /\ alerted_symbols = {}
    /\ current_date = now.date

\* C5: whenever an evaluation decided BUY or SELL (the notifier was invoked)
\* the call returns the signal without raising and the instrument is in the
\* alerted set after the step, whether or not delivery succeeded.
C5_AlertedDespiteDeliveryFailure ==
    (IsCall(lastStep) /\ lastStep.sent = 1) =>
        /\ ~lastStep.raised
        /\ lastStep.signal \in {"BUY", "SELL"}
        /\ lastStep.symbol \in alerted_symbols

\* delivery failed on every attempt and the instrument is alerted
C5_Witness ==
    /\ IsCall(lastStep)
    /\ lastStep.sent = 1
    /\ ~lastStep.delivered
    /\ lastStep.symbol \in alerted_symbols

AllKnownAlerted == \A i \in 1..Len(symbols) : symbols[i] \in alerted_symbols

\* C6: when every known instrument is in the alerted set at the end of an
\* ACTIVE cycle, the scheduler leaves the loop.
C6_AllAlertedStops ==
    [][(pc = "cycle_end" /\ pc' # "cycle_end" /\ AllKnownAlerted) => pc' = "done"]_vars

PastWindowEnd(t) == MinuteOfDay(t) > 9 * 60 + 45

InsideWindow(t) == MinuteOfDay(t) >= 9 * 60 + 30 /\ MinuteOfDay(t) <= 9 * 60 + 45

\* C7: a cycle whose top observes a time after 09:45 ends the run without an
\* evaluation, and nothing is evaluated once the run has ended.
C7_WindowEndStops ==
    [][ /\ (pc = "top" /\ pc' # "top" /\ PastWindowEnd(now))
              => pc' = "done" /\ ~IsCall(lastStep')
        /\ pc = "done" => pc' = "done" /\ ~IsCall(lastStep')
      ]_vars

\* the run has ended on the window end with instruments still not alerted
C7_Witness ==
    /\ pc = "done"
    /\ PastWindowEnd(now)
    /\ symbols # << >>
    /\ ~AllKnownAlerted

\* C8: every call of check_trading_conditions made by the scheduler happens
\* at a clock time within 09:30-09:45.
C8_CallsInsideWindow == IsCall(lastStep) => InsideWindow(lastStep.at)

(***************************************************************************)
(* Properties of the decision (checked under SpecEval).                    *)
(***************************************************************************)
Decided == evalOut # None

\* every input of the decision is there: POC, two candles of today with a
\* readable first one, ATR and a numeric quote
Ready ==
    /\ evalIn.poc # None
    /\ ~(MinuteOfDay(now) < 9 * 60 + 30)
    /\ evalIn.candles # None
    /\ evalIn.candles.len >= 2
    /\ evalIn.candles.first # Malformed
    /\ evalIn.atr # None
    /\ evalIn.ltp.kind = "num"

OpenAbovePoc == evalIn.candles.first.open > evalIn.poc.v

OpenBelowPoc == evalIn.candles.first.open < evalIn.poc.v

AtrAboveOpenToHigh ==
    evalIn.atr.v > evalIn.candles.first.high - evalIn.candles.first.open

AtrAboveOpenToLow ==
    evalIn.atr.v > evalIn.candles.first.open - evalIn.candles.first.low

BreakoutUp == evalIn.ltp.v > evalIn.candles.first.high

BreakoutDown == evalIn.ltp.v < evalIn.candles.first.low

NoSignal == evalOut.signal = "None" /\ evalOut.sent = 0 /\ ~evalOut.raised

\* C9: the decision is BUY iff open > POC, ATR > high - open and price > high
\* hold together; with exactly one of the three false it is None, without a
\* notification.
C9_BuyIffAllThree ==
    Decided =>
        IF Ready
        THEN /\ evalOut.signal = "BUY"
                   <=> (OpenAbovePoc /\ AtrAboveOpenToHigh /\ BreakoutUp)
             /\ (~OpenAbovePoc /\ AtrAboveOpenToHigh /\ BreakoutUp) => NoSignal
             /\ (OpenAbovePoc /\ ~AtrAboveOpenToHigh /\ BreakoutUp) => NoSignal
             /\ (OpenAbovePoc /\ AtrAboveOpenToHigh /\ ~BreakoutUp) => NoSignal
        ELSE evalOut.signal # "BUY"

\* open > POC fails alone: no signal although ATR and breakout are satisfied
C9_Witness ==
    /\ Decided
    /\ Ready
    /\ ~OpenAbovePoc /\ AtrAboveOpenToHigh /\ BreakoutUp
    /\ NoSignal

\* C10: with open < POC the decision is SELL iff ATR > open - low and
\* price < low, and None otherwise; with open = POC it is None.
C10_SellIffBelowPoc ==
    (Decided /\ Ready) =>
        /\ OpenBelowPoc =>
              /\ evalOut.signal = "SELL" <=> (AtrAboveOpenToLow /\ BreakoutDown)
              /\ evalOut.signal # "SELL" => NoSignal
        /\ evalIn.candles.first.open = evalIn.poc.v => NoSignal

\* a SELL decided below the POC
C10_Witness ==
    /\ Decided
    /\ Ready
    /\ OpenBelowPoc
    /\ evalOut.signal = "SELL"
    /\ evalOut.sent = 1

(***************************************************************************)
(* Properties of calculate_atr (checked under SpecAtr).                    *)
(***************************************************************************)
AtrDone == atrOut # Pending

HasRows(n) == atrIn # None /\ Len(atrIn.rows) = n

\* C11 as stated: with exactly 15 daily bars the ATR is the simple mean of
\* the true ranges of the first 14 bars.
C11_SimpleMeanAt15 ==
    (AtrDone /\ HasRows(15)) =>
        /\ atrOut # None
        /\ atrOut.n * 14 = SumTR(atrIn.rows, 14) * atrOut.d

\* C11 as amended: with exactly 15 daily bars the ATR is the simple mean of
\* the first 14 true ranges smoothed once with the 15th true range:
\* (13 * mean + TR15) / 14.
C11_OneSmoothingStepAt15 ==
    (AtrDone /\ HasRows(15)) =>
        /\ atrOut # None
        /\ atrOut.n * 14 * 14
             = (13 * SumTR(atrIn.rows, 14) + 14 * TR(atrIn.rows, 15)) * atrOut.d

\* 15 bars whose ATR differs from the simple mean of the first 14 true ranges
C11_Witness ==
    /\ AtrDone
    /\ HasRows(15)
    /\ atrOut # None
    /\ atrOut.n * 14 # SumTR(atrIn.rows, 14) * atrOut.d

\* C12: calculate_atr returns None for every history shorter than 15 bars and
\* a value for every history of 15 or more bars; with None the caller returns
\* no signal, sends nothing and does not raise.
C12_FailsBelow15Bars ==
    /\ (AtrDone /\ atrIn # None) => (atrOut = None <=> Len(atrIn.rows) < 15)
    /\ (AtrDone /\ atrIn = None) => atrOut = None
    /\ (atrCaller # Pending /\ atrOut = None) =>
           /\ atrCaller.signal = "None"
           /\ atrCaller.sent = 0
           /\ ~atrCaller.raised

\* 14 bars: no ATR, and the caller has skipped the instrument
C12_Witness ==
    /\ HasRows(14)
    /\ atrOut = None
    /\ atrCaller # Pending
    /\ atrCaller.signal = "None"
    /\ ~atrCaller.raised

(***************************************************************************)
(* Properties of calculate_poc (checked under SpecPoc).                    *)
(***************************************************************************)
PocDone == pocOut # Pending

PocRows == pocIn.hist.rows

BinWidth == (pocIn.tick_size * 5) \div 100

\* the bins of the profile: multiples of the bin width from the one at or
\* below the lowest low to the one at or above the highest high
Bins ==
    { b \in 0..(MaxHigh(PocRows, Len(PocRows)) + BinWidth) :
        /\ b % BinWidth = 0
        /\ b + BinWidth > MinLow(PocRows, Len(PocRows))
        /\ b - BinWidth < MaxHigh(PocRows, Len(PocRows)) }

\* occurrence count of bin b: the candles that touch [b, b + BinWidth]
Occurrences(b) ==
    Cardinality({ i \in 1..Len(PocRows) :
                    PocRows[i].low <= b + BinWidth /\ PocRows[i].high >= b })

\* C13: the POC is a bin with the maximum occurrence count, and the
\* lowest-priced one among the bins that tie for the maximum.
C13_LowestBinAmongTies ==
    (PocDone /\ pocIn.hist # None) =>
        /\ pocOut # None
        /\ pocOut.v \in Bins
        /\ \A b \in Bins : Occurrences(b) <= Occurrences(pocOut.v)
        /\ \A b \in Bins : Occurrences(b) = Occurrences(pocOut.v) => pocOut.v <= b

\* counts such as [2, 2, 1]: a higher bin ties with the POC, another has less
C13_Witness ==
    /\ PocDone
    /\ pocIn.hist # None
    /\ pocOut # None
    /\ Occurrences(pocOut.v) = 2
    /\ \E b \in Bins : b > pocOut.v /\ Occurrences(b) = 2
    /\ \E b \in Bins : b > pocOut.v /\ Occurrences(b) = 1

\* C14: the POC lies within [min(low), max(high)] of the source candles.
C14_PocWithinCandleRange ==
    (PocDone /\ pocIn.hist # None /\ pocOut # None) =>
        /\ MinLow(PocRows, Len(PocRows)) <= pocOut.v
        /\ pocOut.v <= MaxHigh(PocRows, Len(PocRows))

\* the step that runs the top of a cycle (lines 380-399)
CycleTopStep == pc = "top" /\ pc' # "top"

\* C15: the top of every cycle, whatever the time of day, leaves the stored
\* date equal to the observed one; when the observed date is later than the
\* stored one that step empties the alerted set and fetches the holiday
\* calendar anew, and nothing of the cycle has been evaluated by then.
C15_RolloverBeforeEvaluation ==
    [][ CycleTopStep =>
          /\ current_date' = now.date
          /\ holidays_fetched_on' = now.date
          /\ cycleLog = << >> /\ cycleLog' = << >>
          /\ ~IsCall(lastStep')
          /\ now.date > current_date =>
                /\ alerted_symbols' = {}
                /\ lastStep'.kind = "reset"
      ]_vars

\* a rollover seen before the window opens: the alerts of the day before are
\* gone and the calendar is the one fetched today
C15_Witness ==
    /\ pc = "waiting"
    /\ lastStep.kind = "reset"
    /\ lastStep.cleared # {}
    /\ alerted_symbols = {}
    /\ holidays_fetched_on = now.date
    /\ now.date > 0
    /\ cycleLog = << >>

\* the inputs of check_trading_conditions that come from the gateway
GatewayInputs == {"poc", "candles", "atr", "ltp"}

\* the item of a symbol waits in the retry list
Queued(symbol) == \E j \in 1..Len(failed_symbols) : failed_symbols[j].symbol = symbol

\* position j of the retry list has been gone through: called, or skipped
\* because its symbol was alerted in the meantime
Retried(j) ==
    \E k \in 1..Len(cycleLog) :
        /\ cycleLog[k].pass = "retry"
        /\ cycleLog[k].pos = j
        /\ cycleLog[k].symbol = failed_symbols[j].symbol

\* C16: after a primary-pass evaluation in which a gateway answer was missing
\* the instrument is in the retry list, and by the end of the cycle every
\* instrument of the retry list has been re-evaluated unless it was alerted
\* in the meantime.
C16_GatewayFailureRetriedInCycle ==
    /\ ( /\ IsCall(lastStep)
         /\ lastStep.pass = "primary"
         /\ lastStep.missing \in GatewayInputs ) => Queued(lastStep.symbol)
    /\ pc = "cycle_end" => \A j \in 1..Len(failed_symbols) : Retried(j)

\* the call found one of its inputs unavailable
InputMissing(step) == IsCall(step) /\ step.missing # "none"

\* C17: an evaluation that finds a required input unavailable returns a
\* non-signal outcome without raising: the notifier is not called, the
\* instrument is not in the alerted set and not in the retry list because of
\* it, the scheduler stays in its pass, and only alerted instruments are
\* ever skipped, so that the instrument is evaluated again when its turn
\* comes in a later cycle.
C17_MissingInputShortCircuits ==
    /\ InputMissing(lastStep) =>
          /\ ~lastStep.raised
          /\ lastStep.signal = "None"
          /\ lastStep.sent = 0
          /\ lastStep.symbol \notin alerted_symbols
          /\ cycleLog[Len(cycleLog)].raised = FALSE
          /\ pc \in {"primary", "retry"}
    /\ lastStep.kind = "skip" => lastStep.symbol \in alerted_symbols

\* the quote failed for an instrument of the primary pass: nothing was sent
\* for it and the retry list is empty
C17_Witness ==
    /\ InputMissing(lastStep)
    /\ lastStep.missing = "ltp"
    /\ lastStep.pass = "primary"
    /\ notified[lastStep.symbol] = 0
    /\ failed_symbols = << >>
    /\ alerted_symbols = {}

\* the entries of cycleLog that are calls of check_trading_conditions for
\* symbol s in the given pass
Calls(s, pass) ==
    { k \in 1..Len(cycleLog) :
        /\ cycleLog[k].kind = "call"
        /\ cycleLog[k].pass = pass
        /\ cycleLog[k].symbol = s }

\* the positions of the symbol list whose primary call raised, in list order
IsRaisedPrimary(e) == e.kind = "call" /\ e.pass = "primary" /\ e.raised

RaisedPrimary == SelectSeq(cycleLog, IsRaisedPrimary)

\* the log goes through the list in order, then through the retry list in
\* order, and the retry pass starts after the last position of the list
PassesInOrder ==
    /\ \A k \in 1..Len(cycleLog) : \A m \in (k + 1)..Len(cycleLog) :
          \/ cycleLog[k].pass = "primary" /\ cycleLog[m].pass = "retry"
          \/ cycleLog[k].pass = cycleLog[m].pass /\ cycleLog[k].pos < cycleLog[m].pos
    /\ \A k \in 1..Len(cycleLog) :
          cycleLog[k].pass = "primary" => cycleLog[k].symbol = symbols[cycleLog[k].pos]
    /\ (\E k \in 1..Len(cycleLog) : cycleLog[k].pass = "retry") =>
          \A i \in 1..Len(symbols) :
              \E k \in 1..Len(cycleLog) :
                  cycleLog[k].pass = "primary" /\ cycleLog[k].pos = i

\* the retry list holds exactly the instruments whose primary call raised
RetryListIsRaised ==
    pc \in {"primary", "retry", "cycle_end"} =>
        /\ Len(failed_symbols) = Len(RaisedPrimary)
        /\ \A j \in 1..Len(failed_symbols) :
              failed_symbols[j].symbol = RaisedPrimary[j].symbol

\* C18: within one cycle every instrument is evaluated at most once in the
\* primary pass, which follows the list order, and at most once more in the
\* retry pass; the retry pass starts after the whole primary pass and holds
\* exactly the instruments whose primary evaluation raised.
C18_AtMostTwoEvaluationsPerCycle ==
    /\ \A s \in Syms :
          /\ Cardinality(Calls(s, "primary")) <= 1
          /\ Cardinality(Calls(s, "retry")) <= 1
    /\ PassesInOrder
    /\ RetryListIsRaised

\* position i of the given pass has had its turn in this cycle: it was
\* called, or skipped because its symbol is alerted
HadTurn(pass, i) ==
    \E k \in 1..Len(cycleLog) :
        /\ cycleLog[k].pass = pass
        /\ cycleLog[k].pos = i
        /\ cycleLog[k].kind = "skip" => cycleLog[k].symbol \in alerted_symbols

\* C19: a call that raised leaves the scheduler in its pass, at the next
\* item; once the primary pass is over every position of the list has had
\* its turn, and at the end of the cycle so has every position of the retry
\* list, whatever raised on the way.
C19_ErrorDoesNotStopTheCycle ==
    /\ (IsCall(lastStep) /\ lastStep.raised) =>
          /\ pc = lastStep.pass
          /\ idx = cycleLog[Len(cycleLog)].pos + 1
    /\ pc \in {"retry", "cycle_end"} =>
          \A i \in 1..Len(symbols) : HadTurn("primary", i)
    /\ pc = "cycle_end" =>
          \A j \in 1..Len(failed_symbols) : HadTurn("retry", j)

\* the first instrument raised in both passes and the second one, not
\* alerted, was evaluated after it in the primary pass
C19_Witness ==
    /\ pc = "cycle_end"
    /\ Len(symbols) = 2
    /\ symbols[1] # symbols[2]
    /\ Len(cycleLog) = 3
    /\ cycleLog[1] = Logged("call", "primary", 1, symbols[1], TRUE)
    /\ cycleLog[2] = Logged("call", "primary", 2, symbols[2], FALSE)
    /\ cycleLog[3] = Logged("call", "retry", 1, symbols[1], TRUE)

BeforeWindowStart(t) == MinuteOfDay(t) < 9 * 60 + 30

\* C20: a cycle whose top observes a time before 09:30 goes to the sleep of
\* line 395 without an evaluation or a notifier call, the alerted set being
\* left as it is or emptied by a rollover; the sleep itself evaluates
\* nothing, notifies nothing, leaves the alerted set alone and leads back to
\* the top of the loop.
C20_BeforeWindowOnlyWaits ==
    [][ /\ (CycleTopStep /\ BeforeWindowStart(now)) =>
              /\ pc' = "waiting"
              /\ ~IsCall(lastStep')
              /\ cycleLog' = << >>
              /\ \A s \in Syms : notified'[s] <= notified[s]
              /\ \/ alerted_symbols' = alerted_symbols
                 \/ now.date > current_date /\ alerted_symbols' = {}
        /\ pc = "waiting" =>
              /\ pc' \in {"waiting", "top"}
              /\ ~IsCall(lastStep')
              /\ cycleLog' = << >>
              /\ notified' = notified
              /\ alerted_symbols' = alerted_symbols
      ]_vars

\* one minute before the window opens, with instruments to watch, the
\* scheduler sleeps
C20_Witness ==
    /\ pc = "waiting"
    /\ now.hour = 9
    /\ now.minute = 29
    /\ symbols # << >>
    /\ lastStep = NoStep
    /\ cycleLog = << >>

\* the candles whose closed range [low, high] overlaps the half-open range
\* [p, p + BinWidth)
OverlapHalfOpen(p) ==
    { i \in 1..Len(PocRows) : PocRows[i].low < p + BinWidth /\ PocRows[i].high >= p }

\* C21: in the profile built by calculate_poc the occurrence count of every
\* bin is the number of candles whose [low, high] overlaps [p, p + binWidth),
\* so that a candle whose low is p + binWidth does not count for the bin at p.
C21_HalfOpenBinCounts ==
    (PocDone /\ pocIn.hist # None) =>
        \A p \in DOMAIN pocProfile.count :
            pocProfile.count[p] = Cardinality(OverlapHalfOpen(p))

\* C22: with the clock advancing and every call returning, signal_detection
\* leaves its loop on every run, whatever the evaluations return or raise.
C22_EventuallyDone == <>(pc = "done")

\* the run ended by the window closing after a cycle in which an evaluation
\* raised and not every instrument had alerted
C22_Witness ==
    /\ pc = "done"
    /\ failed_symbols # << >>
    /\ alerted_symbols # {}
    /\ Cardinality(alerted_symbols) < Len(symbols)
    /\ PastWindowEnd(now)

====
